---- MODULE Spec2Model ----
(***************************************************************************)
(* Symmetry-orbit core of CASM configuration:                              *)
(*   - SupercellSymInfo.cc : supercell factor group and the translation    *)
(*     and factor-group site permutations                                  *)
(*   - clusterography/orbits.cc : prim-periodic and local cluster orbits   *)
(*   - canonical_form.cc : canonical and equivalent supercells, invariant  *)
(*     sets of site indices                                                *)
(* Vectors of the C++ code are modelled as functions on 0..n-1, so that    *)
(* indices in the model are the indices of the code.                       *)
(***************************************************************************)
EXTENDS Integers, Sequences, FiniteSets, TLC

\* ------------------------------------------------------------------ bounds
\* largest number of unit cells in a supercell (|det T|)
MaxCells == 4
\* candidate sites are searched in unit cells -MaxReach..MaxReach per axis
MaxReach == 1
\* largest number of sites in a cluster given as input (prototype, seed)
MaxProto == 3
\* largest size of max_length (one more than the largest branch)
MaxSize == 4
\* largest number of custom generators
MaxGenerators == 1
\* largest size of max_length and cutoff_radius in make_local_orbits
MaxLocalSize == 3

\* ---------------------------------------------------------------- vectors
Size(v) == Cardinality(DOMAIN v)
Vec(s) == [i \in 0..(Len(s) - 1) |-> s[i + 1]]
EmptyVec == Vec(<< >>)
PushBack(v, x) == [i \in 0..Size(v) |-> IF i < Size(v) THEN v[i] ELSE x]
Range(v) == {v[i] : i \in DOMAIN v}
Filled(n, x) == [i \in 0..(n - 1) |-> x]

\* ------------------------------------------------- UnitCell, UnitCellCoord
\* UnitCell u = <<i, j, k>>; UnitCellCoord c = <<b, i, j, k>>
UCZero == <<0, 0, 0>>
UCAdd(u, w) == <<u[1] + w[1], u[2] + w[2], u[3] + w[3]>>
UCSub(u, w) == <<u[1] - w[1], u[2] - w[2], u[3] - w[3]>>
UCNeg(u) == <<-u[1], -u[2], -u[3]>>
unitcell(c) == <<c[2], c[3], c[4]>>
sublattice(c) == c[1]
MakeUCC(b, u) == <<b, u[1], u[2], u[3]>>
UCCAdd(c, u) == MakeUCC(sublattice(c), UCAdd(unitcell(c), u))
UCCSub(c, u) == MakeUCC(sublattice(c), UCSub(unitcell(c), u))
MatVec(M, v) == <<M[1][1] * v[1] + M[1][2] * v[2] + M[1][3] * v[3],
                  M[2][1] * v[1] + M[2][2] * v[2] + M[2][3] * v[3],
                  M[3][1] * v[1] + M[3][2] * v[2] + M[3][3] * v[3]>>

\* lexicographic order on (b, i, j, k)
UCCLess(c, d) ==
  \E n \in 1..4 : c[n] < d[n] /\ \A m \in 1..(n - 1) : c[m] = d[m]

\* ------------------------------------------------------------------ prims
\* A prim: diagonal lattice `lat` (cartesian length of each lattice vector),
\* cartesian basis site coordinates, and the factor group operations as
\* integer matrices acting on both cartesian and fractional coordinates.
OpE == <<<<1, 0, 0>>, <<0, 1, 0>>, <<0, 0, 1>>>>
OpC4 == <<<<0, -1, 0>>, <<1, 0, 0>>, <<0, 0, 1>>>>
OpC2 == <<<<-1, 0, 0>>, <<0, -1, 0>>, <<0, 0, 1>>>>
OpC4i == <<<<0, 1, 0>>, <<-1, 0, 0>>, <<0, 0, 1>>>>
OpMx == <<<<-1, 0, 0>>, <<0, 1, 0>>, <<0, 0, 1>>>>
OpMy == <<<<1, 0, 0>>, <<0, -1, 0>>, <<0, 0, 1>>>>
OpMd == <<<<0, 1, 0>>, <<1, 0, 0>>, <<0, 0, 1>>>>
OpMdi == <<<<0, -1, 0>>, <<-1, 0, 0>>, <<0, 0, 1>>>>
GroupC4v == Vec(<<OpE, OpC4, OpC2, OpC4i, OpMx, OpMy, OpMd, OpMdi>>)
GroupC2v == Vec(<<OpE, OpMx, OpMy, OpC2>>)

\* square lattice, one site per cell
PrimSquare ==
  [lat |-> <<4, 4, 12>>, basis |-> Vec(<< <<0, 0, 0>> >>), ops |-> GroupC4v]
\* chain along x with two sites per cell, related by the mirror x -> -x
PrimChain ==
  [lat |-> <<6, 4, 12>>, basis |-> Vec(<< <<1, 0, 0>>, <<5, 0, 0>> >>),
   ops |-> GroupC2v]
\* centred square lattice, two inequivalent sites per cell
PrimCentred ==
  [lat |-> <<4, 4, 12>>, basis |-> Vec(<< <<0, 0, 0>>, <<2, 2, 0>> >>),
   ops |-> GroupC4v]
PrimStructures == {PrimSquare, PrimChain, PrimCentred}

NSublat(prim) == Size(prim.basis)
Cart(prim, c) ==
  [d \in 1..3 |-> prim.lat[d] * c[d + 1] + prim.basis[sublattice(c)][d]]

\* UnitCellCoordRep of factor group operation R of the prim: R maps basis
\* site b onto basis site sublattice_index[b] of cell unitcell_indices[b].
RepImage(prim, R, b) ==
  CHOOSE img \in {<<bb, MatVec(R, prim.basis[b])>> : bb \in DOMAIN prim.basis} :
    \A d \in 1..3 : (img[2][d] - prim.basis[img[1]][d]) % prim.lat[d] = 0
MakeRep(prim, R) ==
  [point_matrix |-> R,
   sublattice_index |-> [b \in DOMAIN prim.basis |-> RepImage(prim, R, b)[1]],
   unitcell_indices |->
     [b \in DOMAIN prim.basis |->
        LET img == RepImage(prim, R, b)
        IN  [d \in 1..3 |->
               (img[2][d] - prim.basis[img[1]][d]) \div prim.lat[d]]]]
make_unitcellcoord_symgroup_rep(p) ==
  [g \in DOMAIN p.ops |-> MakeRep(p, p.ops[g])]

\* the prims, each with the representation of its factor group
Prims ==
  {[lat |-> p.lat, basis |-> p.basis, ops |-> p.ops,
    reps |-> make_unitcellcoord_symgroup_rep(p)] : p \in PrimStructures}

\* copy_apply(rep, ucc)
ApplyUCC(rep, c) ==
  MakeUCC(rep.sublattice_index[sublattice(c)],
          UCAdd(MatVec(rep.point_matrix, unitcell(c)),
                rep.unitcell_indices[sublattice(c)]))

\* -------------------------------------------------------- IntegralCluster
\* An IntegralCluster is a vector of UnitCellCoord.
ApplyCluster(rep, clust) == [n \in DOMAIN clust |-> ApplyUCC(rep, clust[n])]
ClusterAdd(clust, u) == [n \in DOMAIN clust |-> UCCAdd(clust[n], u)]
ClusterSub(clust, u) == [n \in DOMAIN clust |-> UCCSub(clust[n], u)]

\* clust.sort(): position of element n in the sorted sequence
SortRank(clust, n) ==
  Cardinality({m \in DOMAIN clust : UCCLess(clust[m], clust[n])}) +
  Cardinality({m \in DOMAIN clust : m < n /\ clust[m] = clust[n]})
SortCluster(clust) ==
  LET rank == [n \in DOMAIN clust |-> SortRank(clust, n)]
  IN  [r \in DOMAIN clust |-> clust[CHOOSE n \in DOMAIN clust : rank[n] = r]]

\* IntegralCluster comparisons: on the sorted element sequences
VecLexLess(a, b) ==
  \/ \E n \in DOMAIN a \cap DOMAIN b :
       /\ UCCLess(a[n], b[n])
       /\ \A m \in 0..(n - 1) : a[m] = b[m]
  \/ /\ Size(a) < Size(b)
     /\ \A m \in DOMAIN a : a[m] = b[m]
ClusterLess(a, b) == VecLexLess(SortCluster(a), SortCluster(b))
ClusterEq(a, b) == SortCluster(a) = SortCluster(b)
Sites(clust) == Range(clust)

\* a std::set<IntegralCluster>: the distinct clusters of S in ascending order
OrderedClusters(S) ==
  LET D == {SortCluster(c) : c \in S}
      rank == [c \in D |-> Cardinality({d \in D : VecLexLess(d, c)})]
  IN  [r \in 0..(Cardinality(D) - 1) |-> CHOOSE c \in D : rank[c] = r]

\* ------------------------------------------------------------ superlattice
\* A superlattice is given by the columns of its transformation matrix in
\* Hermite normal form: T[1] = (a, b, d), T[2] = (0, c, e), T[3] = (0, 0, f).
UCScale(n, u) == <<n * u[1], n * u[2], n * u[3]>>
Superlattices ==
  {<<<<a, b, d>>, <<0, c, e>>, <<0, 0, f>>>> :
     a \in 1..MaxCells, c \in 1..MaxCells, f \in 1..MaxCells,
     b \in 0..(MaxCells - 1), d \in 0..(MaxCells - 1), e \in 0..(MaxCells - 1)}
HNFSuperlattices ==
  {T \in Superlattices :
     /\ T[1][1] * T[2][2] * T[3][3] <= MaxCells
     /\ T[1][2] < T[2][2] /\ T[1][3] < T[3][3] /\ T[2][3] < T[3][3]}
Volume(T) == T[1][1] * T[2][2] * T[3][3]

\* reduce a unit cell modulo the superlattice
bring_within(T, u) ==
  LET u1 == UCSub(u, UCScale(u[1] \div T[1][1], T[1]))
      u2 == UCSub(u1, UCScale(u1[2] \div T[2][2], T[2]))
  IN  UCSub(u2, UCScale(u2[3] \div T[3][3], T[3]))

\* UnitCellIndexConverter: total_sites, UnitCell -> index, index -> UnitCell
ijk_total_sites(T) == Volume(T)
ijk_index(T, u) ==
  LET w == bring_within(T, u)
  IN  w[1] + T[1][1] * (w[2] + T[2][2] * w[3])
ijk_unitcell(T, ix) ==
  <<ix % T[1][1], (ix \div T[1][1]) % T[2][2],
    ix \div (T[1][1] * T[2][2])>>

\* UnitCellCoordIndexConverter
bijk_total_sites(T, nsub) == Volume(T) * nsub
bijk_index(T, nsub, c) ==
  sublattice(c) * Volume(T) + ijk_index(T, unitcell(c))
bijk_ucc(T, nsub, l) ==
  MakeUCC(l \div Volume(T), ijk_unitcell(T, l % Volume(T)))

\* xtal::invariant_subgroup_indices: operations that map the superlattice
\* onto itself
invariant_subgroup_indices(T, ops) ==
  {g \in DOMAIN ops :
     \A n \in 1..3 : bring_within(T, MatVec(ops[g], T[n])) = UCZero}

\* the elements of a set of integers in ascending order
RECURSIVE Ascending(_)
Ascending(S) ==
  IF S = {} THEN EmptyVec
  ELSE LET m == CHOOSE x \in S : \A y \in S : y <= x
       IN  PushBack(Ascending(S \ {m}), m)

\* ------------------------------------------------------- SupercellSymInfo
VARIABLES
  prim,                      \* the prim
  pc,                        \* position in the running function
  \* SupercellSymInfo
  superlattice,              \* the superlattice of the supercell
  head_group_index,          \* factor_group->head_group_index
  translation_permutations,
  assert_ok,                 \* FALSE once the assertion of line 55 fails
  factor_group_permutations,
  \* copy_apply calls
  clust,                     \* the cluster passed to copy_apply
  ret,                       \* the last call and what it returned
  \* make_prim_periodic_orbit, make_cluster_groups
  orbit_element,
  orbit,
  eq_map,
  subgroup_indices,
  cluster_groups,
  \* make_prim_periodic_orbits
  site_filter,               \* the sublattices whose sites site_filter accepts
  max_length,                \* squares of the maximum lengths, per branch
  custom_generators,
  branch,
  prev_branch,
  final,
  orbits,
  \* make_local_orbits (with the variables of make_prim_periodic_orbits)
  phenomenal,
  cutoff_radius,             \* squares of the cutoff radii, per branch
  include_phenomenal_sites,
  unitcellcoord_symgroup_rep,
  \* canonical_form
  point_group,               \* prim->sym_info.point_group->element
  site_indices

symVars == <<superlattice, head_group_index, translation_permutations,
             assert_ok, factor_group_permutations>>
applyVars == <<clust, ret>>
orbitVars == <<orbit_element, orbit, eq_map, subgroup_indices,
               cluster_groups>>
enumVars == <<site_filter, max_length, custom_generators, branch,
              prev_branch, final, orbits>>
localVars == <<phenomenal, cutoff_radius, include_phenomenal_sites,
               unitcellcoord_symgroup_rep>>
canonVars == <<point_group, site_indices>>
vars == <<prim, pc, symVars, applyVars, orbitVars, enumVars, localVars,
          canonVars>>

\* the symmetry group representation of the prim
Reps == prim.reps

\* the variables of the functions that are not running
SymIdle ==
  /\ superlattice = EmptyVec
  /\ head_group_index = EmptyVec
  /\ translation_permutations = EmptyVec
  /\ assert_ok = TRUE
  /\ factor_group_permutations = EmptyVec
ApplyIdle ==
  /\ clust = EmptyVec
  /\ ret = [fn |-> "none"]
OrbitIdle ==
  /\ orbit_element = EmptyVec
  /\ orbit = EmptyVec
  /\ eq_map = EmptyVec
  /\ subgroup_indices = EmptyVec
  /\ cluster_groups = EmptyVec
EnumIdle ==
  /\ site_filter = {}
  /\ max_length = EmptyVec
  /\ custom_generators = EmptyVec
  /\ branch = 0
  /\ prev_branch = {}
  /\ final = {}
  /\ orbits = EmptyVec
LocalIdle ==
  /\ phenomenal = EmptyVec
  /\ cutoff_radius = EmptyVec
  /\ include_phenomenal_sites = FALSE
  /\ unitcellcoord_symgroup_rep = EmptyVec
CanonIdle ==
  /\ point_group = EmptyVec
  /\ site_indices = {}

\* make_factor_group: head_group_index of the supercell factor group
make_factor_group(p, T) == Ascending(invariant_subgroup_indices(T, p.ops))

\* the loop "for old_site_ix" of make_translation_permutations, from
\* old_site_ix on
TranslationLoopEndUnitCells(T, nsub) == ijk_total_sites(T)
TranslationLoopEnd(T, nsub) == bijk_total_sites(T, nsub)

TranslationNewSiteLinear(T, nsub, old_site_ix, translation_uc) ==
  (old_site_ix + ijk_index(T, translation_uc)) % bijk_total_sites(T, nsub)
TranslationNewSite(T, nsub, old_site_ix, translation_uc) ==
  bijk_index(T, nsub, UCCAdd(bijk_ucc(T, nsub, old_site_ix), translation_uc))

RECURSIVE TranslationLoop(_, _, _, _, _)
TranslationLoop(T, nsub, translation_uc, old_site_ix, perm) ==
  IF old_site_ix < TranslationLoopEnd(T, nsub)
  THEN TranslationLoop(
         T, nsub, translation_uc, old_site_ix + 1,
         [perm EXCEPT
            ![TranslationNewSite(T, nsub, old_site_ix, translation_uc)] =
              old_site_ix])
  ELSE perm

\* one iteration of the loop "for translation_ix"
single_translation_permutation(T, nsub, translation_ix) ==
  TranslationLoop(T, nsub, ijk_unitcell(T, translation_ix), 0,
                  Filled(bijk_total_sites(T, nsub), -1))

\* the loop "for old_l" of make_factor_group_permutations
FactorGroupNewSiteUnmoved(T, nsub, rep, old_l) ==
  bijk_index(T, nsub, bijk_ucc(T, nsub, old_l))
FactorGroupNewSite(T, nsub, rep, old_l) ==
  bijk_index(T, nsub, ApplyUCC(rep, bijk_ucc(T, nsub, old_l)))

RECURSIVE FactorGroupLoop(_, _, _, _, _)
FactorGroupLoop(T, nsub, rep, old_l, perm) ==
  IF old_l < bijk_total_sites(T, nsub)
  THEN FactorGroupLoop(
         T, nsub, rep, old_l + 1,
         [perm EXCEPT ![FactorGroupNewSite(T, nsub, rep, old_l)] = old_l])
  ELSE perm

factor_group_permutation(p, T, operation_ix) ==
  FactorGroupLoop(T, NSublat(p),
                  p.reps[operation_ix], 0,
                  Filled(bijk_total_sites(T, NSublat(p)), 0))

InitSym ==
  /\ prim \in Prims
  /\ superlattice \in HNFSuperlattices
  /\ pc = "make_factor_group"
  /\ head_group_index = EmptyVec
  /\ translation_permutations = EmptyVec
  /\ assert_ok = TRUE
  /\ factor_group_permutations = EmptyVec
  /\ ApplyIdle /\ OrbitIdle /\ EnumIdle /\ LocalIdle /\ CanonIdle

\* SupercellSymInfo constructor, member factor_group
MakeFactorGroup ==
  /\ pc = "make_factor_group"
  /\ head_group_index' = make_factor_group(prim, superlattice)
  /\ pc' = "make_translation_permutations"
  /\ UNCHANGED <<prim, superlattice, translation_permutations, assert_ok,
                 factor_group_permutations>>
  /\ UNCHANGED <<applyVars, orbitVars, enumVars, localVars, canonVars>>

\* one iteration of the loop over lattice points
TranslationPermutationStep ==
  /\ pc = "make_translation_permutations"
  /\ Size(translation_permutations) < ijk_total_sites(superlattice)
  /\ LET perm == single_translation_permutation(
                   superlattice, NSublat(prim),
                   Size(translation_permutations))
     IN  /\ assert_ok' = (assert_ok /\ -1 \notin Range(perm))
         /\ translation_permutations' =
              PushBack(translation_permutations, perm)
  /\ UNCHANGED <<prim, superlattice, pc, head_group_index,
                 factor_group_permutations>>
  /\ UNCHANGED <<applyVars, orbitVars, enumVars, localVars, canonVars>>

TranslationPermutationsReturn ==
  /\ pc = "make_translation_permutations"
  /\ Size(translation_permutations) >= ijk_total_sites(superlattice)
  /\ pc' = "make_factor_group_permutations"
  /\ UNCHANGED <<prim, superlattice, head_group_index,
                 translation_permutations, assert_ok,
                 factor_group_permutations>>
  /\ UNCHANGED <<applyVars, orbitVars, enumVars, localVars, canonVars>>

\* one iteration of the loop over head_group_index
FactorGroupPermutationStep ==
  /\ pc = "make_factor_group_permutations"
  /\ Size(factor_group_permutations) < Size(head_group_index)
  /\ factor_group_permutations' =
       PushBack(factor_group_permutations,
                factor_group_permutation(
                  prim, superlattice,
                  head_group_index[Size(factor_group_permutations)]))
  /\ UNCHANGED <<prim, superlattice, pc, head_group_index,
                 translation_permutations, assert_ok>>
  /\ UNCHANGED <<applyVars, orbitVars, enumVars, localVars, canonVars>>

FactorGroupPermutationsReturn ==
  /\ pc = "make_factor_group_permutations"
  /\ Size(factor_group_permutations) >= Size(head_group_index)
  /\ pc' = "constructed"
  /\ UNCHANGED <<prim, superlattice, head_group_index,
                 translation_permutations, assert_ok,
                 factor_group_permutations>>
  /\ UNCHANGED <<applyVars, orbitVars, enumVars, localVars, canonVars>>

NextSym ==
  \/ MakeFactorGroup
  \/ TranslationPermutationStep
  \/ TranslationPermutationsReturn
  \/ FactorGroupPermutationStep
  \/ FactorGroupPermutationsReturn

SpecSym == InitSym /\ [][NextSym]_vars

\* ------------------------------------------- properties of SupercellSymInfo
IsBijection(perm, n) ==
  /\ DOMAIN perm = 0..(n - 1)
  /\ Range(perm) = 0..(n - 1)

TranslationsMade ==
  pc \in {"make_factor_group_permutations", "constructed"}

\* C1: make_translation_permutations returns exactly N arrays (N the number
\* of unit cells), each of length N*B (B the number of sublattices) and each
\* a bijection of 0..N*B-1; the assertion that no -1 is left never fails.
TranslationPermutationTotality ==
  /\ assert_ok
  /\ \A t \in DOMAIN translation_permutations :
       IsBijection(translation_permutations[t],
                   Volume(superlattice) * NSublat(prim))
  /\ TranslationsMade =>
       DOMAIN translation_permutations = 0..(Volume(superlattice) - 1)

TranslationPermutationTotalityWitness ==
  /\ TranslationsMade
  /\ Volume(superlattice) >= 3
  /\ NSublat(prim) = 2
  /\ Size(translation_permutations) = Volume(superlattice)

\* (P o Q)[n] = Q[P[n]]
Compose(P, Q) == [n \in DOMAIN P |-> Q[P[n]]]
Identity(n) == [i \in 0..(n - 1) |-> i]

\* C2: composing the translation permutation of t1 after that of t2 gives
\* the permutation stored for t1 + t2 reduced modulo the supercell, and the
\* permutation of t = 0 is the identity.
TranslationClosure ==
  TranslationsMade =>
    /\ translation_permutations[ijk_index(superlattice, UCZero)] =
         Identity(bijk_total_sites(superlattice, NSublat(prim)))
    /\ \A t1, t2 \in DOMAIN translation_permutations :
         Compose(translation_permutations[t1], translation_permutations[t2]) =
           translation_permutations[
             ijk_index(superlattice,
                       UCAdd(ijk_unitcell(superlattice, t1),
                             ijk_unitcell(superlattice, t2)))]

TranslationClosureWitness ==
  /\ TranslationsMade
  /\ superlattice[1][1] = 2 /\ superlattice[2][2] = 2
  /\ superlattice[1][2] = 1
  /\ \E t1, t2 \in DOMAIN translation_permutations :
       /\ t1 # 0 /\ t2 # 0
       /\ UCAdd(ijk_unitcell(superlattice, t1),
                ijk_unitcell(superlattice, t2)) \notin
            {ijk_unitcell(superlattice, t) :
               t \in DOMAIN translation_permutations}

\* C3: factor_group_permutations has one entry per element of factor_group,
\* in the ascending order of head_group_index, and the i-th entry P is a
\* permutation of the sites with P[bijk(rep_i . bijk(old))] = old for all old.
FactorGroupPermutationsCorrect ==
  /\ \A i \in DOMAIN head_group_index :
       \A j \in DOMAIN head_group_index :
         i < j => head_group_index[i] < head_group_index[j]
  /\ pc = "constructed" =>
       DOMAIN factor_group_permutations = DOMAIN head_group_index
  /\ \A i \in DOMAIN factor_group_permutations :
       LET P == factor_group_permutations[i]
           nsub == NSublat(prim)
           rep == Reps[head_group_index[i]]
       IN  /\ IsBijection(P, bijk_total_sites(superlattice, nsub))
           /\ \A old \in 0..(bijk_total_sites(superlattice, nsub) - 1) :
                P[bijk_index(superlattice, nsub,
                             ApplyUCC(rep, bijk_ucc(superlattice, nsub, old)))]
                  = old

FactorGroupPermutationsWitness ==
  /\ pc = "constructed"
  /\ Size(factor_group_permutations) >= 2
  /\ Size(head_group_index) < Size(prim.ops)
  /\ NSublat(prim) = 2
  /\ \E i \in DOMAIN factor_group_permutations :
       factor_group_permutations[i] #
         Identity(bijk_total_sites(superlattice, NSublat(prim)))

\* ------------------------------------------------- clusterography/orbits.cc
IsSorted(c) == \A n, m \in DOMAIN c : n < m => ~UCCLess(c[m], c[n])

\* input clusters: distinct sites of the cells SeedCells, at least one of
\* them in the origin unit cell, in ascending or in descending order
SeedCells ==
  {<<0, 0, 0>>, <<1, 0, 0>>, <<-1, 0, 0>>, <<0, 1, 0>>, <<0, 0, 1>>}
SeedSites(p) == {MakeUCC(b, u) : b \in DOMAIN p.basis, u \in SeedCells}
RECURSIVE KSubsets(_, _)
KSubsets(S, k) ==
  IF k = 0 THEN {{}}
  ELSE IF S = {} THEN {}
  ELSE LET x == CHOOSE y \in S : TRUE
       IN  KSubsets(S \ {x}, k) \cup
           {A \cup {x} : A \in KSubsets(S \ {x}, k - 1)}
AscendingCluster(S) ==
  [r \in 0..(Cardinality(S) - 1) |->
     CHOOSE c \in S : Cardinality({d \in S : UCCLess(d, c)}) = r]
Reversed(c) == [n \in DOMAIN c |-> c[Size(c) - 1 - n]]
SeedSets(p) ==
  UNION {{S \in KSubsets(SeedSites(p), k) :
            \E c \in S : unitcell(c) = UCZero} : k \in 1..MaxProto}
Seeds(p) ==
  {EmptyVec} \cup {AscendingCluster(S) : S \in SeedSets(p)}
  \cup {Reversed(AscendingCluster(S)) : S \in SeedSets(p)}
Translations == {UCZero, <<1, 0, 0>>, <<0, -1, 0>>, <<-1, 1, 1>>}

\* prim_periodic_integral_cluster_copy_apply
PrimPeriodicCopyApplyUnsorted(op, c) ==
  IF Size(c) = 0 THEN c
  ELSE LET applied == ApplyCluster(op, c)
       IN  ClusterSub(applied, unitcell(applied[0]))
prim_periodic_integral_cluster_copy_apply(op, c) ==
  IF Size(c) = 0 THEN c
  ELSE LET sorted == SortCluster(ApplyCluster(op, c))
       IN  ClusterSub(sorted, unitcell(sorted[0]))

\* prim_periodic_integral_cluster_frac_translation
FracTranslationReversed(op, c) ==
  IF Size(c) = 0 THEN UCZero
  ELSE LET pos_init == unitcell(SortCluster(c)[0])
           pos_final == unitcell(SortCluster(ApplyCluster(op, c))[0])
       IN  UCSub(pos_final, pos_init)
prim_periodic_integral_cluster_frac_translation(op, c) ==
  IF Size(c) = 0 THEN UCZero
  ELSE LET sorted == SortCluster(c)
           pos_init == unitcell(sorted[0])
           pos_final == unitcell(SortCluster(ApplyCluster(op, sorted))[0])
       IN  UCSub(pos_init, pos_final)

\* local_integral_cluster_copy_apply
LocalCopyApplyTranslated(op, c) ==
  prim_periodic_integral_cluster_copy_apply(op, c)
local_integral_cluster_copy_apply(op, c) ==
  IF Size(c) = 0 THEN c ELSE SortCluster(ApplyCluster(op, c))

\* a copy_apply function passed as an argument, called
copy_apply_f(f, op, c) ==
  IF f = "prim_periodic" THEN prim_periodic_integral_cluster_copy_apply(op, c)
  ELSE local_integral_cluster_copy_apply(op, c)

\* group::make_orbit, group::make_equivalence_map,
\* group::make_invariant_subgroups
make_orbit(element, reps, f) ==
  OrderedClusters({copy_apply_f(f, reps[g], element) : g \in DOMAIN reps})
make_equivalence_map(orb, reps, f) ==
  [i \in DOMAIN orb |->
     Ascending({j \in DOMAIN reps :
                  ClusterEq(copy_apply_f(f, reps[j], orb[0]), orb[i])})]
make_invariant_subgroups(orb, reps, f) ==
  [i \in DOMAIN orb |->
     Ascending({j \in DOMAIN reps :
                  ClusterEq(copy_apply_f(f, reps[j], orb[i]), orb[i])})]

\* make_prim_periodic_orbit
PrimPeriodicOrbitUntranslated(element, reps) ==
  make_orbit(element, reps, "local")
make_prim_periodic_orbit(element, reps) ==
  make_orbit(element, reps, "prim_periodic")

\* make_cluster_groups, the lambda make_cluster_group_element: the operation
\* translation * factor_group->element[j]
make_cluster_group_element(p, reps, orbit_it, j) ==
  LET frac == prim_periodic_integral_cluster_frac_translation(reps[j],
                                                              orbit_it)
  IN  [index |-> j,
       frac_translation |-> frac,
       translation |-> [d \in 1..3 |-> p.lat[d] * frac[d]]]

\* make_cluster_group: the operations translation * factor_group->element[i]
\* that leave the sites of `cluster` invariant
ClusterGroupTranslationOfUnsorted(rep, cluster) ==
  UCSub(unitcell(cluster[0]), unitcell(ApplyCluster(rep, cluster)[0]))
ClusterGroupTranslation(rep, cluster) ==
  LET sorted == SortCluster(cluster)
      tclust == SortCluster(ApplyCluster(rep, sorted))
  IN  UCSub(unitcell(sorted[0]), unitcell(tclust[0]))
ClusterGroupKeeps(rep, cluster) ==
  LET sorted == SortCluster(cluster)
      tclust == SortCluster(ApplyCluster(rep, sorted))
  IN  ClusterAdd(tclust, ClusterGroupTranslation(rep, cluster)) = sorted
make_cluster_group(cluster, p, reps) ==
  LET indices ==
        IF Size(cluster) = 0 THEN [i \in DOMAIN reps |-> i]
        ELSE Ascending({i \in DOMAIN reps :
                          ClusterGroupKeeps(reps[i], cluster)})
  IN  [head_group_index |-> indices,
       element |->
         [n \in DOMAIN indices |->
            LET frac == IF Size(cluster) = 0 THEN UCZero
                        ELSE ClusterGroupTranslation(reps[indices[n]], cluster)
            IN  [index |-> indices[n],
                 frac_translation |-> frac,
                 translation |-> [d \in 1..3 |-> p.lat[d] * frac[d]]]]]

\* ---- copy_apply on a cluster and on its translate
InitApply ==
  /\ prim \in Prims
  /\ clust \in Seeds(prim)
  /\ pc = "copy_apply"
  /\ ret = [fn |-> "none"]
  /\ SymIdle /\ OrbitIdle /\ EnumIdle /\ LocalIdle /\ CanonIdle

Call(fn, g, t) ==
  LET rep == Reps[g]
  IN  ret' = [fn |-> fn, op |-> g, t |-> t,
              of_clust |-> copy_apply_f(fn, rep, clust),
              of_translated |-> copy_apply_f(fn, rep, ClusterAdd(clust, t))]

PrimPeriodicCopyApply ==
  /\ pc = "copy_apply"
  /\ \E g \in DOMAIN prim.ops, t \in Translations :
       Call("prim_periodic", g, t)
  /\ pc' = "returned"
  /\ UNCHANGED <<prim, clust, symVars, orbitVars, enumVars,
                 localVars, canonVars>>

LocalCopyApply ==
  /\ pc = "copy_apply"
  /\ \E g \in DOMAIN prim.ops, t \in Translations :
       Call("local", g, t)
  /\ pc' = "returned"
  /\ UNCHANGED <<prim, clust, symVars, orbitVars, enumVars,
                 localVars, canonVars>>

NextApply == PrimPeriodicCopyApply \/ LocalCopyApply

SpecApply == InitApply /\ [][NextApply]_vars

\* ---- an orbit and its cluster groups
InitOrbit ==
  /\ prim \in Prims
  /\ orbit_element \in Seeds(prim)
  /\ pc = "make_prim_periodic_orbit"
  /\ orbit = EmptyVec
  /\ eq_map = EmptyVec
  /\ subgroup_indices = EmptyVec
  /\ cluster_groups = EmptyVec
  /\ SymIdle /\ ApplyIdle /\ EnumIdle /\ LocalIdle /\ CanonIdle

MakePrimPeriodicOrbit ==
  /\ pc = "make_prim_periodic_orbit"
  /\ orbit' = make_prim_periodic_orbit(orbit_element,
                                       Reps)
  /\ pc' = "make_cluster_groups"
  /\ UNCHANGED <<prim, orbit_element, eq_map, subgroup_indices,
                 cluster_groups, symVars, applyVars, enumVars,
                 localVars, canonVars>>

\* make_cluster_groups up to its loop
MakeEquivalenceMap ==
  /\ pc = "make_cluster_groups"
  /\ eq_map' = make_equivalence_map(orbit, Reps, "prim_periodic")
  /\ subgroup_indices' = make_invariant_subgroups(orbit, Reps,
                                                  "prim_periodic")
  /\ pc' = "cluster_groups_loop"
  /\ UNCHANGED <<prim, orbit_element, orbit, cluster_groups, symVars,
                 applyVars, enumVars, localVars, canonVars>>

\* one iteration of the loop "while (subgroup_indices_it != ...)"
ClusterGroupStep ==
  /\ pc = "cluster_groups_loop"
  /\ Size(cluster_groups) < Size(subgroup_indices)
  /\ LET i == Size(cluster_groups)
         reps == Reps
     IN  cluster_groups' =
           PushBack(cluster_groups,
                    [head_group_index |-> subgroup_indices[i],
                     element |->
                       [n \in DOMAIN subgroup_indices[i] |->
                          make_cluster_group_element(
                            prim, reps, orbit[i], subgroup_indices[i][n])]])
  /\ UNCHANGED <<prim, pc, orbit_element, orbit, eq_map, subgroup_indices,
                 symVars, applyVars, enumVars, localVars, canonVars>>

ClusterGroupsReturn ==
  /\ pc = "cluster_groups_loop"
  /\ Size(cluster_groups) >= Size(subgroup_indices)
  /\ pc' = "cluster_groups_made"
  /\ UNCHANGED <<prim, orbit_element, orbit, eq_map, subgroup_indices,
                 cluster_groups, symVars, applyVars, enumVars,
                 localVars, canonVars>>

\* make_cluster_group called on each element of the orbit
MakeClusterGroupCall ==
  /\ pc = "cluster_groups_made"
  /\ ret' = [fn |-> "make_cluster_group",
             value |-> [i \in DOMAIN orbit |->
                          make_cluster_group(orbit[i], prim, Reps)]]
  /\ pc' = "cluster_group_made"
  /\ UNCHANGED <<prim, clust, symVars, orbitVars, enumVars, localVars,
                 canonVars>>

NextOrbit ==
  \/ MakePrimPeriodicOrbit
  \/ MakeEquivalenceMap
  \/ ClusterGroupStep
  \/ ClusterGroupsReturn
  \/ MakeClusterGroupCall

SpecOrbit == InitOrbit /\ [][NextOrbit]_vars

\* ---- make_prim_periodic_orbits
\* squared cartesian distance of two sites
Dist2(p, c, d) ==
  LET x == Cart(p, c)
      y == Cart(p, d)
  IN  (x[1] - y[1]) * (x[1] - y[1]) + (x[2] - y[2]) * (x[2] - y[2]) +
      (x[3] - y[3]) * (x[3] - y[3])

\* ClusterInvariants(cluster, prim): the number of sites and the site-to-site
\* distances, sorted
SitePairs(c) == {pr \in (DOMAIN c) \X (DOMAIN c) : pr[1] < pr[2]}
ClusterInvariants(c, p) ==
  LET pairs == SitePairs(c)
      D == [pr \in pairs |-> Dist2(p, c[pr[1]], c[pr[2]])]
      below == [v \in Range(D) |-> Cardinality({pr \in pairs : D[pr] < v})]
      upto == [v \in Range(D) |-> Cardinality({pr \in pairs : D[pr] <= v})]
  IN  [size |-> Size(c),
       displacement |->
         [r \in 0..(Cardinality(pairs) - 1) |->
            CHOOSE v \in Range(D) : below[v] <= r /\ r < upto[v]]]

\* CompareCluster_f: by invariants (size, then distances from the longest),
\* then by cluster
InvariantsLess(a, b) ==
  \/ a.size < b.size
  \/ /\ a.size = b.size
     /\ \E n \in DOMAIN a.displacement :
          /\ a.displacement[n] < b.displacement[n]
          /\ \A m \in DOMAIN a.displacement :
               m > n => a.displacement[m] = b.displacement[m]
CompareCluster_f(A, B) ==
  \/ InvariantsLess(A[1], B[1])
  \/ A[1] = B[1] /\ ClusterLess(A[2], B[2])
\* a std::set<pair_type, CompareCluster_f> in its order
OrderedPairs(S) ==
  LET rank == [A \in S |-> Cardinality({B \in S : CompareCluster_f(B, A)})]
  IN  [r \in 0..(Cardinality(S) - 1) |-> CHOOSE A \in S : rank[A] = r]

\* candidate sites: origin_neighborhood(), max_length_neighborhood(d)
ReachCells ==
  {<<i, j, k>> : i \in (-MaxReach)..MaxReach, j \in (-MaxReach)..MaxReach,
                 k \in (-MaxReach)..MaxReach}
OriginSites(p) == {MakeUCC(b, UCZero) : b \in DOMAIN p.basis}
origin_neighborhood(p, filter) ==
  {c \in OriginSites(p) : sublattice(c) \in filter}
max_length_neighborhood(d2, p, filter) ==
  {c \in {MakeUCC(b, u) : b \in filter, u \in ReachCells} :
     \E o \in OriginSites(p) : Dist2(p, c, o) <= d2}

\* cluster filters: all_clusters_filter(), max_length_cluster_filter(d)
all_clusters_filter(inv, c) == TRUE
max_length_cluster_filter(d2, inv, c) ==
  \A n \in DOMAIN inv.displacement : inv.displacement[n] <= d2

\* group::make_canonical_element: the smallest copy_apply(op, cluster)
make_canonical_element(c, reps, f) ==
  LET E == {copy_apply_f(f, reps[g], c) : g \in DOMAIN reps}
      sorted == [x \in E |-> SortCluster(x)]
  IN  CHOOSE x \in E : \A y \in E : ~VecLexLess(sorted[y], sorted[x])

\* the lambda _make_canonical
MakeCanonicalSortedOnly(c, reps) == SortCluster(c)
MakeCanonical(c, reps) ==
  make_canonical_element(c, reps, "prim_periodic")

\* the values of SubClusterCounter(prototype)
SubClusters(prototype) ==
  {LET ix == Ascending(I)
   IN  [n \in DOMAIN ix |-> prototype[ix[n]]] : I \in SUBSET DOMAIN prototype}

\* "for (int branch = 1; branch < max_length.size(); ++branch)"
FirstBranchZero == 1 - 1
FirstBranch == 1
BranchLoopContinues(b, ml) == b < Size(ml)

\* the candidate sites of a branch
CandidateSitesOriginOnly(b, ml, p, filter) == origin_neighborhood(p, filter)
CandidateSites(b, ml, p, filter) ==
  IF b = 1 THEN origin_neighborhood(p, filter)
  ELSE max_length_neighborhood(ml[b], p, filter)

\* the cluster filter of a branch
ClusterFilter(b, ml, inv, c) ==
  IF b = 1 THEN all_clusters_filter(inv, c)
  ELSE max_length_cluster_filter(ml[b], inv, c)

\* the loop over prev_branch and candidate_sites: the current branch
CurrBranch(b, ml, p, filter, prev, reps) ==
  {<<ClusterInvariants(PushBack(pair[2], integral_site), p),
     MakeCanonical(PushBack(pair[2], integral_site), reps)>> :
     <<pair, integral_site>> \in
       {x \in prev \X CandidateSites(b, ml, p, filter) :
          /\ x[2] \notin Sites(x[1][2])
          /\ ClusterFilter(b, ml,
                           ClusterInvariants(PushBack(x[1][2], x[2]), p),
                           PushBack(x[1][2], x[2]))}}

\* the clusters a custom generator adds to `final`
CustomClustersPrototypeOnly(gen) == {gen.prototype}
CustomClusters(gen) ==
  {gen.prototype} \cup
  (IF gen.include_subclusters THEN SubClusters(gen.prototype) ELSE {})
CustomPairs(gen, p, reps) ==
  {<<ClusterInvariants(canonical, p), canonical>> :
     canonical \in {MakeCanonical(c, reps) : c \in CustomClusters(gen)}}

\* inputs
SiteFilters(p) == (SUBSET DOMAIN p.basis) \ {{}}
MaxLengths == {8, 16, 32}
MaxLengthVectors ==
  UNION {{ml \in [0..(n - 1) -> MaxLengths \cup {0}] :
            \A b \in DOMAIN ml : (b < 2) <=> (ml[b] = 0)} : n \in 0..MaxSize}
\* the prototype of a custom generator: the MaxProto smallest sites of the
\* cells PrototypeCells, in descending order
PrototypeCells == {<<0, 0, 0>>, <<1, 1, 0>>, <<0, 1, 0>>, <<-1, 0, 0>>}
PrototypeSites(p) ==
  LET pool == {MakeUCC(b, u) : b \in DOMAIN p.basis, u \in PrototypeCells}
  IN  {c \in pool : Cardinality({d \in pool : UCCLess(d, c)}) < MaxProto}
Prototypes(p) == {Reversed(AscendingCluster(PrototypeSites(p)))}
Generators(p) ==
  [prototype : Prototypes(p), include_subclusters : BOOLEAN]
NullPair(p) == <<ClusterInvariants(EmptyVec, p), EmptyVec>>

InitEnum ==
  /\ prim \in Prims
  /\ site_filter \in SiteFilters(prim)
  /\ max_length \in MaxLengthVectors
  /\ custom_generators = EmptyVec
  /\ final = {NullPair(prim)}
  /\ prev_branch = {NullPair(prim)}
  /\ branch = FirstBranch
  /\ orbits = EmptyVec
  /\ pc = "branches"
  /\ SymIdle /\ ApplyIdle /\ OrbitIdle /\ LocalIdle /\ CanonIdle

\* one iteration of the loop over branches
BranchStep ==
  /\ pc = "branches"
  /\ BranchLoopContinues(branch, max_length)
  /\ final' = final \cup prev_branch
  /\ prev_branch' = CurrBranch(branch, max_length, prim, site_filter,
                               prev_branch, Reps)
  /\ branch' = branch + 1
  /\ UNCHANGED <<prim, pc, site_filter, max_length, custom_generators,
                 orbits, symVars, applyVars, orbitVars, localVars, canonVars>>

\* "save the last branch"
SaveLastBranch ==
  /\ pc = "branches"
  /\ ~BranchLoopContinues(branch, max_length)
  /\ final' = final \cup prev_branch
  /\ pc' = "custom_generators"
  /\ UNCHANGED <<prim, site_filter, max_length, custom_generators, branch,
                 prev_branch, orbits, symVars, applyVars, orbitVars,
                 localVars, canonVars>>

\* one iteration of the loop over custom_generators; the generators are
\* drawn as the loop reaches them
CustomGeneratorStep ==
  /\ pc = "custom_generators"
  /\ Size(custom_generators) < MaxGenerators
  /\ \E gen \in Generators(prim) :
       /\ custom_generators' = PushBack(custom_generators, gen)
       /\ final' = final \cup CustomPairs(gen, prim, Reps)
  /\ UNCHANGED <<prim, pc, site_filter, max_length, branch, prev_branch,
                 orbits, symVars, applyVars, orbitVars, localVars, canonVars>>

\* "generate orbits from the unique clusters", and return
GenerateOrbits ==
  /\ pc = "custom_generators"
  /\ LET ordered == OrderedPairs(final)
     IN  orbits' = [r \in DOMAIN ordered |->
                      make_prim_periodic_orbit(ordered[r][2], Reps)]
  /\ pc' = "returned"
  /\ UNCHANGED <<prim, site_filter, max_length, custom_generators, branch,
                 prev_branch, final, symVars, applyVars, orbitVars,
                 localVars, canonVars>>

NextEnum ==
  \/ BranchStep
  \/ SaveLastBranch
  \/ CustomGeneratorStep
  \/ GenerateOrbits

SpecEnum == InitEnum /\ [][NextEnum]_vars

\* ---- make_local_orbits
\* the representation of the group that leaves the phenomenal cluster
\* invariant: make_unitcellcoord_symgroup_rep(cluster_group->element, prim)
TranslatedRep(rep, frac) ==
  [point_matrix |-> rep.point_matrix,
   sublattice_index |-> rep.sublattice_index,
   unitcell_indices |->
     [b \in DOMAIN rep.unitcell_indices |->
        UCAdd(rep.unitcell_indices[b], frac)]]
make_phenomenal_symgroup_rep(p, ph) ==
  LET group == make_cluster_group(ph, p, p.reps)
  IN  [n \in DOMAIN group.element |->
         TranslatedRep(p.reps[group.element[n].index],
                       group.element[n].frac_translation)]

\* the values of a function in ascending order, as a vector
SortedValues(D) ==
  LET below == [v \in Range(D) |-> Cardinality({x \in DOMAIN D : D[x] < v})]
      upto == [v \in Range(D) |-> Cardinality({x \in DOMAIN D : D[x] <= v})]
  IN  [r \in 0..(Cardinality(DOMAIN D) - 1) |->
         CHOOSE v \in Range(D) : below[v] <= r /\ r < upto[v]]

\* ClusterInvariants(cluster, phenomenal, prim): also the distances of the
\* cluster sites to the phenomenal sites, sorted
LocalClusterInvariants(c, ph, p) ==
  [size |-> Size(c),
   displacement |->
     SortedValues([pr \in SitePairs(c) |-> Dist2(p, c[pr[1]], c[pr[2]])]),
   phenomenal_displacement |->
     SortedValues([pr \in (DOMAIN c) \X (DOMAIN ph) |->
                     Dist2(p, c[pr[1]], ph[pr[2]])])]
DistancesLess(x, y) ==
  \E n \in DOMAIN x :
    /\ x[n] < y[n]
    /\ \A m \in DOMAIN x : m > n => x[m] = y[m]
LocalInvariantsLess(a, b) ==
  \/ a.size < b.size
  \/ /\ a.size = b.size
     /\ \/ DistancesLess(a.displacement, b.displacement)
        \/ /\ a.displacement = b.displacement
           /\ DistancesLess(a.phenomenal_displacement,
                            b.phenomenal_displacement)
LocalCompareCluster_f(A, B) ==
  \/ LocalInvariantsLess(A[1], B[1])
  \/ A[1] = B[1] /\ ClusterLess(A[2], B[2])
LocalOrderedPairs(S) ==
  LET rank == [A \in S |->
                 Cardinality({B \in S : LocalCompareCluster_f(B, A)})]
  IN  [r \in 0..(Cardinality(S) - 1) |-> CHOOSE A \in S : rank[A] = r]

\* cutoff_radius_neighborhood(phenomenal, cutoff_radius,
\* include_phenomenal_sites)
InCutoffNeighborhood(c, ph, r2, include, p) ==
  /\ \E n \in DOMAIN ph : Dist2(p, c, ph[n]) <= r2
  /\ include \/ c \notin Sites(ph)
cutoff_radius_neighborhood(ph, r2, include, p, filter) ==
  {c \in {MakeUCC(b, u) : b \in filter, u \in ReachCells} :
     InCutoffNeighborhood(c, ph, r2, include, p)}

\* the lambda _make_canonical of make_local_orbits
LocalMakeCanonical(c, reps) == make_canonical_element(c, reps, "local")

\* make_local_orbit
make_local_orbit(element, reps) == make_orbit(element, reps, "local")

\* "for (int branch = 1; branch < max_length.size(); ++branch)"
LocalFirstBranch == 1

\* the candidate sites of a branch
LocalCandidateSitesWithPhenomenal(b, cr, ph, include, p, filter) ==
  cutoff_radius_neighborhood(ph, cr[b], TRUE, p, filter)
LocalCandidateSites(b, cr, ph, include, p, filter) ==
  cutoff_radius_neighborhood(ph, cr[b], include, p, filter)

\* the loop over prev_branch and candidate_sites: the current branch
LocalCurrBranch(b, ml, cr, ph, include, p, filter, prev, reps) ==
  LET candidate_sites == LocalCandidateSites(b, cr, ph, include, p, filter)
      test_clusters ==
        UNION {{PushBack(pair[2], integral_site) :
                  integral_site \in candidate_sites \ Sites(pair[2])} :
                 pair \in prev}
      tested == {<<LocalClusterInvariants(test_cluster, ph, p), test_cluster>> :
                   test_cluster \in test_clusters}
  IN  {<<x[1], LocalMakeCanonical(x[2], reps)>> :
         x \in {y \in tested : ClusterFilter(b, ml, y[1], y[2])}}

\* the clusters a custom generator adds to `final`
LocalCustomPairs(gen, ph, p, reps) ==
  {<<LocalClusterInvariants(canonical, ph, p), canonical>> :
     canonical \in {LocalMakeCanonical(c, reps) : c \in CustomClusters(gen)}}

\* inputs: a point cluster and a pair cluster as phenomenal cluster, the
\* cutoff radius (squared) of each branch, max_length
PhenomenalSites(p, k) ==
  LET pool == {MakeUCC(b, u) : b \in DOMAIN p.basis,
                               u \in {UCZero, <<1, 0, 0>>}}
  IN  {c \in pool : Cardinality({d \in pool : UCCLess(d, c)}) < k}
Phenomenals(p) == {AscendingCluster(PhenomenalSites(p, k)) : k \in {1, 2}}
Cutoffs == {8, 16}
CutoffVectors(n) ==
  {cr \in [0..(n - 1) -> Cutoffs \cup {0}] :
     \A b \in DOMAIN cr : (b < 1) <=> (cr[b] = 0)}
LocalMaxLengths == {32}
LocalMaxLengthVectors ==
  UNION {{ml \in [0..(n - 1) -> LocalMaxLengths \cup {0}] :
            \A b \in DOMAIN ml : (b < 2) <=> (ml[b] = 0)} :
           n \in 0..MaxLocalSize}
\* site filters: every sublattice, sublattice 0 only
LocalSiteFilters(p) == {DOMAIN p.basis, {0}}
\* custom generators: the prototype with its subclusters
LocalGenerators(p) == {gen \in Generators(p) : gen.include_subclusters}
LocalNullPair(p, ph) == <<LocalClusterInvariants(EmptyVec, ph, p), EmptyVec>>

InitLocal ==
  /\ prim \in Prims
  /\ phenomenal \in Phenomenals(prim)
  /\ unitcellcoord_symgroup_rep =
       make_phenomenal_symgroup_rep(prim, phenomenal)
  /\ site_filter \in LocalSiteFilters(prim)
  /\ max_length \in LocalMaxLengthVectors
  /\ cutoff_radius \in CutoffVectors(Size(max_length))
  /\ include_phenomenal_sites \in BOOLEAN
  /\ custom_generators = EmptyVec
  /\ final = {LocalNullPair(prim, phenomenal)}
  /\ prev_branch = {LocalNullPair(prim, phenomenal)}
  /\ branch = LocalFirstBranch
  /\ orbits = EmptyVec
  /\ pc = "local_branches"
  /\ SymIdle /\ ApplyIdle /\ OrbitIdle /\ CanonIdle

\* one iteration of the loop over branches
LocalBranchStep ==
  /\ pc = "local_branches"
  /\ BranchLoopContinues(branch, max_length)
  /\ final' = final \cup prev_branch
  /\ prev_branch' = LocalCurrBranch(branch, max_length, cutoff_radius,
                                    phenomenal, include_phenomenal_sites,
                                    prim, site_filter, prev_branch,
                                    unitcellcoord_symgroup_rep)
  /\ branch' = branch + 1
  /\ UNCHANGED <<prim, pc, site_filter, max_length, custom_generators,
                 orbits, symVars, applyVars, orbitVars, localVars, canonVars>>

\* "save the last branch"
LocalSaveLastBranch ==
  /\ pc = "local_branches"
  /\ ~BranchLoopContinues(branch, max_length)
  /\ final' = final \cup prev_branch
  /\ pc' = "local_custom_generators"
  /\ UNCHANGED <<prim, site_filter, max_length, custom_generators, branch,
                 prev_branch, orbits, symVars, applyVars, orbitVars,
                 localVars, canonVars>>

\* one iteration of the loop over custom_generators
LocalCustomGeneratorStep ==
  /\ pc = "local_custom_generators"
  /\ Size(custom_generators) < MaxGenerators
  /\ \E gen \in LocalGenerators(prim) :
       /\ custom_generators' = PushBack(custom_generators, gen)
       /\ final' = final \cup LocalCustomPairs(gen, phenomenal, prim,
                                               unitcellcoord_symgroup_rep)
  /\ UNCHANGED <<prim, pc, site_filter, max_length, branch, prev_branch,
                 orbits, symVars, applyVars, orbitVars, localVars, canonVars>>

\* "generate orbits from the unique clusters", and return
LocalGenerateOrbits ==
  /\ pc = "local_custom_generators"
  /\ LET ordered == LocalOrderedPairs(final)
     IN  orbits' = [r \in DOMAIN ordered |->
                      make_local_orbit(ordered[r][2],
                                       unitcellcoord_symgroup_rep)]
  /\ pc' = "local_returned"
  /\ UNCHANGED <<prim, site_filter, max_length, custom_generators, branch,
                 prev_branch, final, symVars, applyVars, orbitVars,
                 localVars, canonVars>>

NextLocal ==
  \/ LocalBranchStep
  \/ LocalSaveLastBranch
  \/ LocalCustomGeneratorStep
  \/ LocalGenerateOrbits

SpecLocal == InitLocal /\ [][NextLocal]_vars

\* -------------------------------------------------------- canonical_form
\* A Lattice is given by its three column vectors, in the basis of the prim
\* lattice; a Supercell is [prim, superlattice].
Det3(a, b, c) ==
  a[1] * (b[2] * c[3] - b[3] * c[2]) - a[2] * (b[1] * c[3] - b[3] * c[1]) +
  a[3] * (b[1] * c[2] - b[2] * c[1])
\* v is a lattice point of L (Cramer's rule)
LatticeHas(L, v) ==
  LET D == Det3(L[1], L[2], L[3])
      AbsD == IF D < 0 THEN 0 - D ELSE D
  IN  /\ Det3(v, L[2], L[3]) % AbsD = 0
      /\ Det3(L[1], v, L[3]) % AbsD = 0
      /\ Det3(L[1], L[2], v) % AbsD = 0

\* sym::copy_apply(op, lattice)
LatticeApply(op, L) == [n \in 1..3 |-> MatVec(op, L[n])]

\* Lattice::operator<: a total order on the lattice vectors
LatticeLess(A, B) ==
  \E k \in 0..8 :
    /\ A[(k \div 3) + 1][(k % 3) + 1] < B[(k \div 3) + 1][(k % 3) + 1]
    /\ \A j \in 0..(k - 1) :
         A[(j \div 3) + 1][(j % 3) + 1] = B[(j \div 3) + 1][(j % 3) + 1]

\* a std::set<Lattice> in its order
OrderedLattices(S) ==
  LET rank == [A \in S |-> Cardinality({B \in S : LatticeLess(B, A)})]
  IN  [r \in 0..(Cardinality(S) - 1) |-> CHOOSE A \in S : rank[A] = r]

\* xtal::invariant_subgroup_indices for a lattice in any orientation
lattice_invariant_subgroup_indices(L, ops) ==
  {i \in DOMAIN ops : \A n \in 1..3 : LatticeHas(L, MatVec(ops[i], L[n]))}

\* xtal::canonical::equivalent: the equivalent lattice that compares greater
\* to all equivalents
canonical_equivalent(L, ops) ==
  LET equivalents == {LatticeApply(ops[i], L) : i \in DOMAIN ops}
  IN  CHOOSE M \in equivalents : \A N \in equivalents : ~LatticeLess(M, N)

\* xtal::canonical::operation_index: the first operation that makes the
\* lattice canonical
canonical_operation_index(L, ops) ==
  LET canonical == canonical_equivalent(L, ops)
      found == {i \in DOMAIN ops : LatticeApply(ops[i], L) = canonical}
  IN  CHOOSE i \in found : \A j \in found : i <= j

make_canonical_form(p, L, ops) ==
  [prim |-> p, superlattice |-> canonical_equivalent(L, ops)]

to_canonical(L, ops) == ops[canonical_operation_index(L, ops)]

\* "if (lhs == sym::copy_apply(op, canonical))"
FromCanonicalMatchesReversed(lhs, op, canonical) ==
  canonical = LatticeApply(op, lhs)
FromCanonicalMatches(lhs, op, canonical) ==
  lhs = LatticeApply(op, canonical)

\* "throw std::runtime_error(... Not found)"
FromCanonicalNotFoundReturnsFirst(ops) == [thrown |-> FALSE, value |-> ops[0]]
FromCanonicalNotFound(ops) == [thrown |-> TRUE]

\* the loop over the point group, from operation i on
RECURSIVE FromCanonicalLoop(_, _, _, _)
FromCanonicalLoop(lhs, canonical, ops, i) ==
  IF i < Size(ops)
  THEN IF FromCanonicalMatches(lhs, ops[i], canonical)
       THEN [thrown |-> FALSE, value |-> ops[i]]
       ELSE FromCanonicalLoop(lhs, canonical, ops, i + 1)
  ELSE FromCanonicalNotFound(ops)

from_canonical(L, ops) ==
  FromCanonicalLoop(L, canonical_equivalent(L, ops), ops, 0)

\* the lambda representation_prepare of make_equivalents
RepresentationPrepareFullGroup(superlat, ops) ==
  canonical_equivalent(superlat, ops)
representation_prepare(superlat, ops) ==
  LET invariant_subgroup_indices_ ==
        Ascending(lattice_invariant_subgroup_indices(superlat, ops))
      invariant_subgroup ==
        [n \in DOMAIN invariant_subgroup_indices_ |->
           ops[invariant_subgroup_indices_[n]]]
  IN  canonical_equivalent(superlat, invariant_subgroup)

make_equivalents(p, init_superlat, ops) ==
  LET superlats ==
        OrderedLattices({representation_prepare(
                           LatticeApply(ops[i], init_superlat), ops) :
                           i \in DOMAIN ops})
  IN  [n \in DOMAIN superlats |-> [prim |-> p, superlattice |-> superlats[n]]]

\* inputs: the superlattices in every orientation; the point group of the
\* prim and a list of operations that is not closed under inversion
CanonSuperlattices(p) ==
  {LatticeApply(p.ops[g], T) : g \in DOMAIN p.ops, T \in HNFSuperlattices}
PointGroupLists(p) == {p.ops, [i \in 0..1 |-> p.ops[i]]}

InitCanon ==
  /\ prim \in Prims
  /\ superlattice \in CanonSuperlattices(prim)
  /\ point_group \in PointGroupLists(prim)
  /\ site_indices = {}
  /\ head_group_index = EmptyVec
  /\ translation_permutations = EmptyVec
  /\ assert_ok = TRUE
  /\ factor_group_permutations = EmptyVec
  /\ pc = "canonical_form"
  /\ ApplyIdle /\ OrbitIdle /\ EnumIdle /\ LocalIdle

MakeCanonicalFormCall ==
  /\ pc = "canonical_form"
  /\ ret' = [fn |-> "make_canonical_form",
             value |-> make_canonical_form(prim, superlattice, point_group)]
  /\ pc' = "canonical_form_returned"
  /\ UNCHANGED <<prim, clust, symVars, orbitVars, enumVars, localVars,
                 canonVars>>

ToCanonicalCall ==
  /\ pc = "canonical_form"
  /\ ret' = [fn |-> "to_canonical",
             value |-> to_canonical(superlattice, point_group)]
  /\ pc' = "canonical_form_returned"
  /\ UNCHANGED <<prim, clust, symVars, orbitVars, enumVars, localVars,
                 canonVars>>

FromCanonicalCall ==
  /\ pc = "canonical_form"
  /\ ret' = [fn |-> "from_canonical",
             result |-> from_canonical(superlattice, point_group)]
  /\ pc' = "canonical_form_returned"
  /\ UNCHANGED <<prim, clust, symVars, orbitVars, enumVars, localVars,
                 canonVars>>

MakeEquivalentsCall ==
  /\ pc = "canonical_form"
  /\ ret' = [fn |-> "make_equivalents",
             value |-> make_equivalents(prim, superlattice, point_group)]
  /\ pc' = "canonical_form_returned"
  /\ UNCHANGED <<prim, clust, symVars, orbitVars, enumVars, localVars,
                 canonVars>>

NextCanon ==
  \/ MakeCanonicalFormCall
  \/ ToCanonicalCall
  \/ FromCanonicalCall
  \/ MakeEquivalentsCall

SpecCanon == InitCanon /\ [][NextCanon]_vars

\* ---- site_indices_are_invariant
\* SupercellSymOp::permute_index: the permutation of the factor group
\* operation followed by that of the translation
permute_index(op, s) == op[s]
SupercellSymOps(fg_perms, trans_perms) ==
  {[s \in DOMAIN fg_perms[f] |-> fg_perms[f][trans_perms[t][s]]] :
     f \in DOMAIN fg_perms, t \in DOMAIN trans_perms}

SiteIndicesSomeInvariant(op, S) ==
  S = {} \/ \E s \in S : permute_index(op, s) \in S
site_indices_are_invariant(op, S) ==
  ~\E s \in S : permute_index(op, s) \notin S

\* inputs: the sets {0, ..., k-1} of site indices and their complements
SiteIndexSets(n) ==
  {0..(k - 1) : k \in 0..n} \cup {k..(n - 1) : k \in 0..n}

\* a constructed SupercellSymInfo
InitSites ==
  /\ prim \in Prims
  /\ superlattice \in HNFSuperlattices
  /\ head_group_index = make_factor_group(prim, superlattice)
  /\ translation_permutations =
       [t \in 0..(ijk_total_sites(superlattice) - 1) |->
          single_translation_permutation(superlattice, NSublat(prim), t)]
  /\ assert_ok = TRUE
  /\ factor_group_permutations =
       [n \in DOMAIN head_group_index |->
          factor_group_permutation(prim, superlattice, head_group_index[n])]
  /\ point_group = EmptyVec
  /\ site_indices = {}
  /\ pc = "constructed"
  /\ ApplyIdle /\ OrbitIdle /\ EnumIdle /\ LocalIdle

SiteIndicesAreInvariantCall ==
  /\ pc = "constructed"
  /\ \E op \in SupercellSymOps(factor_group_permutations,
                               translation_permutations) :
       \E S \in SiteIndexSets(bijk_total_sites(superlattice,
                                               NSublat(prim))) :
         /\ site_indices' = S
         /\ ret' = [fn |-> "site_indices_are_invariant", op |-> op,
                    value |-> site_indices_are_invariant(op, S)]
  /\ pc' = "site_indices_returned"
  /\ UNCHANGED <<prim, clust, symVars, point_group, orbitVars, enumVars,
                 localVars>>

NextSites == SiteIndicesAreInvariantCall

SpecSites == InitSites /\ [][NextSites]_vars

\* ------------------------------------------------ properties of copy_apply
\* C4: prim_periodic_integral_cluster_copy_apply returns, for a non-empty
\* cluster, a sorted cluster of the same number of sites whose first element
\* is in the unit cell (0,0,0); an empty cluster is returned unchanged.
PrimPeriodicCopyApplyNormalises ==
  ret.fn = "prim_periodic" =>
    /\ Size(ret.of_clust) = Size(clust)
    /\ Size(ret.of_translated) = Size(clust)
    /\ Size(clust) = 0 => ret.of_clust = clust
    /\ Size(clust) > 0 =>
         \A out \in {ret.of_clust, ret.of_translated} :
           /\ IsSorted(out)
           /\ unitcell(out[0]) = UCZero
           /\ \A n \in DOMAIN out : ~UCCLess(out[n], out[0])

PrimPeriodicCopyApplyWitness ==
  /\ ret.fn = "prim_periodic"
  /\ Size(clust) = 3
  /\ ret.op # 0
  /\ ~IsSorted(ApplyCluster(Reps[ret.op],
                            clust))
  /\ unitcell(SortCluster(
       ApplyCluster(Reps[ret.op],
                    clust))[0]) # UCZero

\* C10 as stated: for every op, every cluster c and every non-zero lattice
\* translation t, local_integral_cluster_copy_apply(op, c + t) differs from
\* local_integral_cluster_copy_apply(op, c), by the image of t under op,
\* while prim_periodic_integral_cluster_copy_apply gives the same cluster.
LocalCopyApplyNeverCollapses ==
  /\ (ret.fn = "local" /\ ret.t # UCZero) =>
       /\ ret.of_translated # ret.of_clust
       /\ ret.of_translated =
            ClusterAdd(ret.of_clust, MatVec(prim.ops[ret.op], ret.t))
  /\ ret.fn = "prim_periodic" => ret.of_translated = ret.of_clust

\* C10, amended: the same for every non-empty cluster c; the empty cluster
\* is its own translate and both functions return it unchanged.
LocalCopyApplyNoCollapse ==
  /\ (ret.fn = "local" /\ ret.t # UCZero /\ Size(clust) > 0) =>
       /\ ret.of_translated # ret.of_clust
       /\ ret.of_translated =
            ClusterAdd(ret.of_clust, MatVec(prim.ops[ret.op], ret.t))
  /\ (ret.fn = "local" /\ Size(clust) = 0) =>
       ret.of_translated = clust /\ ret.of_clust = clust
  /\ ret.fn = "prim_periodic" => ret.of_translated = ret.of_clust

LocalCopyApplyNoCollapseWitness ==
  /\ ret.fn = "local"
  /\ ret.t # UCZero
  /\ Size(clust) >= 2
  /\ ret.op # 0
  /\ MatVec(prim.ops[ret.op], ret.t) # ret.t

\* ---------------------------------- properties of orbits and cluster groups
EqMapMade == pc \in {"cluster_groups_loop", "cluster_groups_made"}

\* C5: every element of make_prim_periodic_orbit(c0, reps) is
\* prim_periodic_integral_cluster_copy_apply(op, c0) for some op of reps, and
\* the equivalence map partitions the indices of reps: each index j is in the
\* row of exactly one orbit element, the one equal to copy_apply(reps[j],
\* orbit[0]).
OrbitEquivalenceMapConsistent ==
  /\ pc # "make_prim_periodic_orbit" =>
       /\ Size(orbit) > 0
       /\ \A i \in DOMAIN orbit :
            \E g \in DOMAIN Reps :
              orbit[i] = prim_periodic_integral_cluster_copy_apply(
                           Reps[g], orbit_element)
  /\ EqMapMade =>
       /\ DOMAIN eq_map = DOMAIN orbit
       /\ \A j \in DOMAIN Reps :
            /\ Cardinality({i \in DOMAIN eq_map : j \in Range(eq_map[i])}) = 1
            /\ \A i \in DOMAIN eq_map :
                 j \in Range(eq_map[i]) <=>
                   orbit[i] = prim_periodic_integral_cluster_copy_apply(
                                Reps[j], orbit[0])

OrbitEquivalenceMapWitness ==
  /\ EqMapMade
  /\ Size(orbit) >= 2
  /\ Size(orbit_element) >= 2
  /\ Size(orbit) < Size(Reps)
  /\ ~IsSorted(orbit_element)

\* C6: for every element e of the orbit and every operation of the cluster
\* group of e, applying factor group operation j and then the attached
\* lattice translation to e gives exactly the sites of e.
ClusterGroupFixesCluster ==
  \A i \in DOMAIN cluster_groups :
    /\ DOMAIN cluster_groups[i].element =
         DOMAIN cluster_groups[i].head_group_index
    /\ \A n \in DOMAIN cluster_groups[i].element :
         LET el == cluster_groups[i].element[n]
         IN  /\ el.index = cluster_groups[i].head_group_index[n]
             /\ el.frac_translation =
                  prim_periodic_integral_cluster_frac_translation(
                    Reps[el.index], orbit[i])
             /\ Sites(ClusterAdd(ApplyCluster(Reps[el.index], orbit[i]),
                                 el.frac_translation)) = Sites(orbit[i])

ClusterGroupFixesClusterWitness ==
  /\ pc = "cluster_groups_made"
  /\ Size(orbit) >= 2
  /\ \E i \in DOMAIN cluster_groups :
       /\ i > 0
       /\ Size(orbit[i]) >= 2
       /\ \E n \in DOMAIN cluster_groups[i].element :
            /\ cluster_groups[i].element[n].frac_translation # UCZero
            /\ cluster_groups[i].element[n].index # 0

\* ------------------------------------- properties of make_prim_periodic_orbits
EnumReturned == pc = "returned"

\* translate a cluster so that its smallest site is in the origin unit cell
Normalised(c) ==
  IF Size(c) = 0 THEN c
  ELSE ClusterSub(SortCluster(c), unitcell(SortCluster(c)[0]))
InReturnedOrbit(c) ==
  \E r \in DOMAIN orbits : Normalised(c) \in Range(orbits[r])

\* the clusters of b distinct sites, one of them in the origin unit cell (as
\* every cluster is up to a lattice translation), whose sites all pass
\* site_filter and that pass max_length_cluster_filter(max_length[b])
RECURSIVE GrowAllowed(_, _, _)
GrowAllowed(near, d2, k) ==
  IF k = 1 THEN {{o} : o \in origin_neighborhood(prim, site_filter)}
  ELSE {A \cup {c} :
          <<A, c>> \in
            {x \in GrowAllowed(near, d2, k - 1) \X near :
               /\ x[2] \notin x[1]
               /\ \A d \in x[1] : Dist2(prim, x[2], d) <= d2}}
AllowedClusters(b) ==
  LET near == {c \in {MakeUCC(sb, u) : sb \in site_filter, u \in ReachCells} :
                 \E o \in OriginSites(prim) :
                   Dist2(prim, c, o) <= max_length[b]}
  IN  {AscendingCluster(S) : S \in GrowAllowed(near, max_length[b], b)}

\* C7 as stated: for any site_filter and any max_length, every cluster of
\* `branch` distinct sites (1 <= branch < |max_length|) whose sites pass
\* site_filter and that passes max_length_cluster_filter(max_length[branch])
\* lies, up to a lattice translation, in some returned orbit.
OrbitCoverageAnyInput ==
  EnumReturned =>
    \A b \in 1..(Size(max_length) - 1) :
      \A c \in AllowedClusters(b) : InReturnedOrbit(c)

\* site_filter accepts a site iff it accepts the sites equivalent to it
FilterSymmetric ==
  \A g \in DOMAIN Reps :
    \A b \in site_filter : Reps[g].sublattice_index[b] \in site_filter
\* max_length does not grow from one branch to the next (from branch 2 on)
MaxLengthNonIncreasing ==
  \A b \in DOMAIN max_length :
    (b >= 2 /\ b + 1 \in DOMAIN max_length) => max_length[b + 1] <= max_length[b]

\* C7, amended: the coverage holds when site_filter is invariant under the
\* symmetry operations and max_length[branch] does not increase with branch
\* (branch >= 2).
OrbitCoverage ==
  (EnumReturned /\ FilterSymmetric /\ MaxLengthNonIncreasing) =>
    \A b \in 1..(Size(max_length) - 1) :
      \A c \in AllowedClusters(b) : InReturnedOrbit(c)

OrbitCoverageWitness ==
  /\ EnumReturned /\ FilterSymmetric /\ MaxLengthNonIncreasing
  /\ Size(max_length) = 4
  /\ max_length[2] > max_length[3]
  /\ NSublat(prim) = 2
  /\ Cardinality(AllowedClusters(3)) >= 2
  /\ Cardinality(AllowedClusters(2)) > Cardinality(AllowedClusters(3))

\* the canonical clusters that the custom generators add
CustomCanonical ==
  {MakeCanonical(c, Reps) :
     c \in UNION {{custom_generators[n].prototype} \cup
                  (IF custom_generators[n].include_subclusters
                   THEN SubClusters(custom_generators[n].prototype) ELSE {}) :
                    n \in DOMAIN custom_generators}}

\* C8 as stated: for any max_length and any custom_generators, every orbit
\* representative has a number of sites in 0..|max_length|-1.
BranchSizeBoundAnyInput ==
  EnumReturned =>
    \A r \in DOMAIN orbits :
      \A c \in Range(orbits[r]) : Size(c) \in 0..(Size(max_length) - 1)

\* C8, amended: every orbit representative that is not the canonical form of
\* a custom generator's prototype (or, with include_subclusters, of one of
\* its subclusters) has a number of sites in 0..|max_length|-1, or is the
\* null cluster, which is returned also when max_length is empty.
BranchSizeBound ==
  EnumReturned =>
    LET custom == CustomCanonical
    IN  \A r \in DOMAIN orbits :
          \A c \in Range(orbits[r]) :
            \/ Size(c) \in 0..(Size(max_length) - 1)
            \/ Size(c) = 0
            \/ MakeCanonical(c, Reps) \in custom

BranchSizeBoundWitness ==
  /\ EnumReturned
  /\ Size(max_length) = 3
  /\ Size(custom_generators) = 0
  /\ \E r \in DOMAIN orbits : \E c \in Range(orbits[r]) : Size(c) = 2
  /\ site_filter = DOMAIN prim.basis

\* C9: the returned orbits contain the orbit of the prototype of every custom
\* generator and, with include_subclusters, the orbit of each of its
\* subclusters, whatever site_filter and max_length are.
CustomGeneratorsIncluded ==
  EnumReturned =>
    \A n \in DOMAIN custom_generators :
      \A c \in {custom_generators[n].prototype} \cup
               (IF custom_generators[n].include_subclusters
                THEN SubClusters(custom_generators[n].prototype) ELSE {}) :
        LET expected == make_prim_periodic_orbit(c, Reps)
        IN  \E r \in DOMAIN orbits :
              /\ Normalised(c) \in Range(orbits[r])
              /\ orbits[r] = expected

CustomGeneratorsIncludedWitness ==
  /\ EnumReturned
  /\ Size(custom_generators) = 1
  /\ custom_generators[0].include_subclusters
  /\ Size(custom_generators[0].prototype) = 3
  /\ Size(max_length) = 2
  /\ \E n \in DOMAIN custom_generators[0].prototype :
       sublattice(custom_generators[0].prototype[n]) \notin site_filter

\* ------------------------------------------- properties of make_local_orbits
LocalReturned == pc = "local_returned"

\* the canonical clusters that the custom generators add
LocalCustomCanonical ==
  {LocalMakeCanonical(c, unitcellcoord_symgroup_rep) :
     c \in UNION {CustomClusters(custom_generators[n]) :
                    n \in DOMAIN custom_generators}}

\* the returned clusters of `n` sites that did not come from a custom
\* generator
LocalBranchClusters(n) ==
  LET custom == LocalCustomCanonical
  IN  {c \in UNION {Range(orbits[r]) : r \in DOMAIN orbits} :
         /\ Size(c) = n
         /\ LocalMakeCanonical(c, unitcellcoord_symgroup_rep) \notin custom}

\* C11: in make_local_orbits with reps that fix the phenomenal cluster, for
\* every branch n (1 <= n < |max_length|), every returned cluster of n sites
\* that does not come from a custom generator has all of its sites accepted
\* by cutoff_radius_neighborhood(phenomenal, cutoff_radius[n],
\* include_phenomenal_sites), for any cutoff_radius vector.
LocalClustersWithinCutoff ==
  LocalReturned =>
    \A n \in 1..(Size(max_length) - 1) :
      \A c \in LocalBranchClusters(n) :
        \A m \in DOMAIN c :
          InCutoffNeighborhood(c[m], phenomenal, cutoff_radius[n],
                               include_phenomenal_sites, prim)

\* cutoff_radius does not shrink from one branch to the next
CutoffNonDecreasing ==
  \A b \in DOMAIN cutoff_radius :
    (b >= 1 /\ b + 1 \in DOMAIN cutoff_radius) =>
      cutoff_radius[b] <= cutoff_radius[b + 1]

\* the sites of a cluster of branch n are candidate sites of the branches
\* 1..n: with a cutoff_radius that does not shrink, they are within
\* cutoff_radius[n]
LocalClustersWithinLargestCutoff ==
  (LocalReturned /\ CutoffNonDecreasing) =>
    \A n \in 1..(Size(max_length) - 1) :
      \A c \in LocalBranchClusters(n) :
        \A m \in DOMAIN c :
          InCutoffNeighborhood(c[m], phenomenal, cutoff_radius[n],
                               include_phenomenal_sites, prim)

\* ---------------------------------------------- properties of canonical_form
\* the greatest of the lattices op * superlattice, op in the point group
CanonicalLattice ==
  LET equivalents ==
        {LatticeApply(point_group[i], superlattice) : i \in DOMAIN point_group}
  IN  CHOOSE M \in equivalents : \A N \in equivalents : ~LatticeLess(M, N)
\* the operations op with superlattice == op * canonical lattice
FromCanonicalOps ==
  {i \in DOMAIN point_group :
     superlattice = LatticeApply(point_group[i], CanonicalLattice)}

\* C12: for a supercell whose superlattice is in the point group orbit of the
\* canonical lattice, to_canonical(sc) applied to the superlattice of sc
\* gives the superlattice of make_canonical_form(sc), and from_canonical(sc)
\* applied to the superlattice of make_canonical_form(sc) gives the
\* superlattice of sc.
CanonicalRoundTrip ==
  LET canonical_supercell ==
        make_canonical_form(prim, superlattice, point_group)
  IN  /\ ret.fn = "to_canonical" =>
           LatticeApply(ret.value, superlattice) =
             canonical_supercell.superlattice
      /\ (ret.fn = "from_canonical" /\ FromCanonicalOps # {}) =>
           /\ ~ret.result.thrown
           /\ LatticeApply(ret.result.value,
                           canonical_supercell.superlattice) = superlattice

CanonicalRoundTripWitness ==
  /\ ret.fn = "from_canonical"
  /\ point_group = prim.ops
  /\ ~ret.result.thrown
  /\ ret.result.value = OpC4
  /\ to_canonical(superlattice, point_group) = OpC4i

\* C13: from_canonical(sc) returns the first operation g of the point group,
\* in its order, with sc.superlattice == g * canonical lattice; when no
\* operation satisfies this it returns no operation and throws "Not found".
FromCanonicalFirst ==
  ret.fn = "from_canonical" =>
    IF FromCanonicalOps = {}
    THEN ret.result = [thrown |-> TRUE]
    ELSE /\ ~ret.result.thrown
         /\ \E i \in FromCanonicalOps :
              /\ \A j \in FromCanonicalOps : i <= j
              /\ ret.result.value = point_group[i]

FromCanonicalFirstWitness ==
  /\ ret.fn = "from_canonical"
  /\ ~ret.result.thrown
  /\ \E i \in FromCanonicalOps : i >= 4 /\ ret.result.value = point_group[i]

\* the throw of from_canonical is reached with a list of operations that is
\* not closed under inversion
FromCanonicalThrown ==
  /\ ret.fn = "from_canonical"
  /\ ret.result.thrown

\* C14: make_equivalents(sc) returns a list in which no two supercells have
\* equal superlattices; for every g of the point group the
\* representation-prepared form of g * sc.superlattice (the greatest of its
\* images under the operations that leave it invariant) is the superlattice
\* of a returned supercell; every returned supercell has the prim of sc.
EquivalentsDistinctAndComplete ==
  ret.fn = "make_equivalents" =>
    LET lats == [n \in DOMAIN ret.value |-> ret.value[n].superlattice]
    IN  /\ \A m, n \in DOMAIN lats : m # n => lats[m] # lats[n]
        /\ \A i \in DOMAIN point_group :
             LET moved == LatticeApply(point_group[i], superlattice)
                 forms ==
                   {LatticeApply(point_group[h], moved) :
                      h \in lattice_invariant_subgroup_indices(moved,
                                                               point_group)}
             IN  \E n \in DOMAIN lats :
                   /\ lats[n] \in forms
                   /\ \A N \in forms : ~LatticeLess(lats[n], N)
        /\ \A n \in DOMAIN ret.value : ret.value[n].prim = prim

EquivalentsWitness ==
  /\ ret.fn = "make_equivalents"
  /\ point_group = prim.ops
  /\ Size(point_group) = 8
  /\ Size(ret.value) = 2
  /\ superlattice \notin {ret.value[n].superlattice : n \in DOMAIN ret.value}

\* C15: for a bijective site permutation op and a set S of site indices,
\* site_indices_are_invariant(op, S) is true iff permute_index(s) is in S for
\* every s in S, which is the case iff the image of S under the permutation
\* and its preimage are both S.
SiteIndicesInvariance ==
  ret.fn = "site_indices_are_invariant" =>
    LET image == {ret.op[s] : s \in site_indices}
        preimage == {s \in DOMAIN ret.op : ret.op[s] \in site_indices}
    IN  /\ IsBijection(ret.op, Size(ret.op))
        /\ ret.value <=> \A s \in site_indices : ret.op[s] \in site_indices
        /\ ret.value <=> (image = site_indices /\ preimage = site_indices)

SiteIndicesInvarianceWitness ==
  /\ ret.fn = "site_indices_are_invariant"
  /\ ret.value
  /\ site_indices # {}
  /\ site_indices # DOMAIN ret.op
  /\ \A s \in site_indices : ret.op[s] # s

SiteIndicesNotInvariantWitness ==
  /\ ret.fn = "site_indices_are_invariant"
  /\ ~ret.value
  /\ \E s \in site_indices : ret.op[s] \in site_indices

\* ------------------------------------------ properties of make_cluster_group
\* C16: for every non-empty element e of a prim-periodic orbit,
\* make_cluster_group(e, ...) and the entry of make_cluster_groups for e
\* select the same factor group indices and attach the same lattice
\* translation: cluster[0].unitcell() - tclust[0].unitcell() equals
\* prim_periodic_integral_cluster_frac_translation(reps[j], e).
ClusterGroupAgreesWithClusterGroups ==
  ret.fn = "make_cluster_group" =>
    \A i \in DOMAIN orbit :
      Size(orbit[i]) > 0 =>
        LET group == ret.value[i]
            entry == cluster_groups[i]
        IN  /\ group.head_group_index = entry.head_group_index
            /\ \A n \in DOMAIN group.element :
                 /\ group.element[n].index = entry.element[n].index
                 /\ group.element[n].frac_translation =
                      prim_periodic_integral_cluster_frac_translation(
                        Reps[group.element[n].index], orbit[i])
                 /\ group.element[n].frac_translation =
                      entry.element[n].frac_translation
                 /\ group.element[n].translation =
                      entry.element[n].translation

ClusterGroupAgreesWitness ==
  /\ ret.fn = "make_cluster_group"
  /\ \E i \in DOMAIN orbit :
       /\ i > 0
       /\ Size(orbit[i]) = 2
       /\ Size(ret.value[i].head_group_index) >= 2
       /\ Size(ret.value[i].head_group_index) < Size(Reps)
       /\ \E n \in DOMAIN ret.value[i].element :
            ret.value[i].element[n].frac_translation # UCZero

\* ---------------------------------- properties of make_prim_periodic_orbits
\* C17: the orbits returned by make_prim_periodic_orbits are pairwise
\* disjoint (no cluster is in two orbits, whether its orbit was reached from
\* several pairs, in several branches, or from a branch and a custom
\* generator), and the orbit of the empty cluster is returned exactly once.
OrbitsDisjoint ==
  EnumReturned =>
    /\ \A r, q \in DOMAIN orbits :
         r < q => Range(orbits[r]) \cap Range(orbits[q]) = {}
    /\ Cardinality({r \in DOMAIN orbits : EmptyVec \in Range(orbits[r])}) = 1

OrbitsDisjointWitness ==
  /\ EnumReturned
  /\ Size(max_length) = 4
  /\ Size(custom_generators) = 1
  /\ custom_generators[0].include_subclusters
  /\ \E a, b \in final :
       /\ a # b
       /\ Size(a[2]) = 2
       /\ a[1] = b[1]
  /\ \E a \in final :
       MakeCanonical(custom_generators[0].prototype, Reps) = a[2]
  /\ Size(orbits) >= 5

====
